---- MODULE Spec2Model ----
(***************************************************************************)
(* Model of `merod config` (crates/merod/src/cli/config.rs): the argument  *)
(* parser KeyValuePair::from_str, the schema tree CONFIG_SCHEMA and its    *)
(* lookup ConfigSchema::find, the hint table, and ConfigCommand::run with  *)
(* its edit loop, the validation through a transient file and the final    *)
(* diff / save / print_config / warning.  Spec is the command as a whole;  *)
(* FindSpec is ConfigSchema::find called on its own, on every node of the  *)
(* schema tree with every short path.                                      *)
(*                                                                         *)
(* Text is modelled at the granularity of lexical symbols: a command-line  *)
(* token is a sequence of symbols (words, literals and the characters      *)
(* '.', '=' and '?', each a symbol of its own), a configuration file is a  *)
(* sequence of lines.  No word or literal contains '.', '=' or '?', so     *)
(* splitting and trimming on those characters is exact at this level.      *)
(***************************************************************************)
EXTENDS Integers, Sequences, FiniteSets, TLC

\* ------------------------------------------------------------------ bounds

\* Largest number of positional arguments of one invocation.
MaxArgs == 2
\* Largest number of invocations in a row (the same command line repeated).
MaxRuns == 2
\* Largest number of segments of a path given to ConfigSchema::find.
MaxPathLen == 4

\* ------------------------------------------------------- sequences, options

None == <<>>
Some(x) == <<x>>
IsSome(o) == Len(o) > 0
Unwrap(o) == o[1]

RECURSIVE Concat(_)
\* The string made of the strings of a sequence, in order.
Concat(s) == IF Len(s) = 0 THEN "" ELSE Head(s) \o Concat(Tail(s))

RECURSIVE IndexOf(_, _, _)
\* The first position >= i of symbol c in s, or 0.
IndexOf(s, c, i) ==
    IF i > Len(s) THEN 0
    ELSE IF s[i] = c THEN i
    ELSE IndexOf(s, c, i + 1)

RECURSIVE Split(_, _)
\* str::split(c): the pieces between the occurrences of c, each piece the
\* string of its symbols; an empty piece is the empty string.
Split(s, c) ==
    LET p == IndexOf(s, c, 1)
    IN  IF p = 0 THEN << Concat(s) >>
        ELSE << Concat(SubSeq(s, 1, p - 1)) >> \o Split(SubSeq(s, p + 1, Len(s)), c)

RECURSIVE TrimEnd(_, _)
\* str::trim_end_matches(c): every trailing c removed.
TrimEnd(s, c) ==
    IF Len(s) > 0 /\ s[Len(s)] = c THEN TrimEnd(SubSeq(s, 1, Len(s) - 1), c) ELSE s

\* str::ends_with(c)
EndsWith(s, c) == Len(s) > 0 /\ s[Len(s)] = c

\* ------------------------------------------------------------ value literals

IntLiterals == {"5000", "3000"}
BoolLiterals == {"true"}
Literals == IntLiterals \cup BoolLiterals

\* toml_edit::Value::from_str: the text must be exactly one value literal; the
\* value it yields carries no decor (no surrounding whitespace or comment).
ValueFromStr(s) ==
    IF Len(s) = 1 /\ s[1] \in Literals
    THEN [ok |-> TRUE, value |-> [k |-> "value", repr |-> s[1], pre |-> None,
                                  suf |-> None, entries |-> <<>>], err |-> ""]
    ELSE [ok |-> FALSE, value |-> <<>>, err |-> "invalid value"]

\* ------------------------------------------------------- KeyValuePair::from_str

\* s.splitn(2, '='): the part before the first '=' and, when there is one, the
\* part after it.
Splitn2(s) ==
    LET p == IndexOf(s, "=", 1)
    IN  IF p = 0 THEN << s >>
        ELSE << SubSeq(s, 1, p - 1), SubSeq(s, p + 1, Len(s)) >>

from_str(s) ==
    LET parts == Splitn2(s)
        key   == parts[1]
    IN  IF Len(parts) < 2
        THEN [ok |-> FALSE, key |-> <<>>, value |-> <<>>, err |-> "Missing value"]
        ELSE LET v == ValueFromStr(parts[2])
             IN  IF ~v.ok
                 THEN [ok |-> FALSE, key |-> <<>>, value |-> <<>>, err |-> v.err]
                 ELSE [ok |-> TRUE, key |-> key, value |-> v.value, err |-> ""]

\* ---------------------------------------------------------------- the schema

Leaf(p, t, d) == [path |-> p, type_info |-> t, description |-> d, children |-> <<>>]

CONFIG_SCHEMA ==
    [path |-> "root", type_info |-> "object", description |-> "Root configuration",
     children |-> <<
        [path |-> "sync", type_info |-> "object",
         description |-> "Sync configuration",
         children |-> <<
            Leaf("timeout_ms", "u64", "Timeout for sync operations in milliseconds"),
            Leaf("interval_ms", "u64", "Interval between sync operations in milliseconds")
         >>],
        [path |-> "discovery", type_info |-> "object",
         description |-> "Discovery configuration",
         children |-> <<
            Leaf("mdns", "boolean", "Enable mDNS discovery"),
            [path |-> "relay", type_info |-> "object",
             description |-> "Relay configuration",
             children |-> <<
                Leaf("registrations_limit", "usize",
                     "Max number of active relay registrations")
             >>]
         >>]
     >>]

RECURSIVE FindChild(_, _, _)
\* children.iter().find(|c| c.path == part), from position i
FindChild(children, part, i) ==
    IF i > Len(children) THEN None
    ELSE IF children[i].path = part THEN Some(children[i])
    ELSE FindChild(children, part, i + 1)

RECURSIVE Descend(_, _)
\* the loop of find: one child per remaining part
Descend(current, parts) ==
    IF Len(parts) = 0 THEN Some(current)
    ELSE LET c == FindChild(current.children, Head(parts), 1)
         IN  IF IsSome(c) THEN Descend(Unwrap(c), Tail(parts)) ELSE None

\* Mutant of find: the first segment is not compared with the label of self.
find_FirstSegmentFree(self, path) == Descend(self, Tail(Split(path, ".")))

\* ConfigSchema::find(&self, path)
find(self, path) ==
    LET parts == Split(path, ".")
    IN  IF Head(parts) # self.path THEN None
        ELSE Descend(self, Tail(parts))

\* ------------------------------------------------------ toml_edit: the items

\* toml_edit::Item.  k is "none", "value" (a scalar Value), "inline" (an inline
\* table Value) or "table".  pre and suf are the decor of a value: the optional
\* text before and after it (whitespace, a trailing comment).  entries is the
\* ordered content of a table: [key, item].
NoneItem == [k |-> "none", repr |-> "", pre |-> None, suf |-> None, entries |-> <<>>]
ValueItem(r, p, s) == [k |-> "value", repr |-> r, pre |-> p, suf |-> s, entries |-> <<>>]
InlineItem(es) == [k |-> "inline", repr |-> "", pre |-> None, suf |-> None, entries |-> es]
TableItem(es) == [k |-> "table", repr |-> "", pre |-> None, suf |-> None, entries |-> es]
\* The outcome of indexing mutably into an item that cannot hold keys.
Panic == [k |-> "panic", repr |-> "", pre |-> None, suf |-> None, entries |-> <<>>]

RECURSIVE EntryIndex(_, _, _)
EntryIndex(es, key, i) ==
    IF i > Len(es) THEN 0
    ELSE IF es[i].key = key THEN i
    ELSE EntryIndex(es, key, i + 1)

\* impl Index<&str> for Item: the item under key, or Item::None when there is
\* none or when the item holds no keys.
GetEntry(item, key) ==
    IF item.k \in {"table", "inline"}
    THEN LET i == EntryIndex(item.entries, key, 1)
         IN  IF i = 0 THEN NoneItem ELSE item.entries[i].item
    ELSE NoneItem

\* The table (or inline table) with the item under key replaced, in place when
\* the key is there, appended otherwise.
PutEntry(item, key, new) ==
    LET i == EntryIndex(item.entries, key, 1)
    IN  IF i = 0
        THEN [item EXCEPT !.entries = Append(@, [key |-> key, item |-> new])]
        ELSE [item EXCEPT !.entries[i].item = new]

\* ------------------------------------------------- toml_edit: text of a file

\* A file is a sequence of lines: a table header `[a.b]` (t = "hdr", path the
\* table's path), a `key = value` line (t = "kv", path = <<key>>), or a line
\* that is no TOML (t = "junk").  A value in text carries its decor spelled
\* out: pre and suf are strings.
NoVal == [k |-> "none", repr |-> "", pre |-> "", suf |-> "", entries |-> <<>>]
TextValue(r, p, s) == [k |-> "value", repr |-> r, pre |-> p, suf |-> s, entries |-> <<>>]
HdrLine(path) == [t |-> "hdr", path |-> path, val |-> NoVal]
KvLine(key, val) == [t |-> "kv", path |-> <<key>>, val |-> val]
JunkLine == [t |-> "junk", path |-> <<>>, val |-> NoVal]

RECURSIVE TextOfValue(_, _, _)
RECURSIVE TextEntries(_, _)
\* encode: a value as it is written, with the default decor where it has none.
TextOfValue(item, dpre, dsuf) ==
    [k |-> item.k, repr |-> item.repr,
     pre |-> IF IsSome(item.pre) THEN Unwrap(item.pre) ELSE dpre,
     suf |-> IF IsSome(item.suf) THEN Unwrap(item.suf) ELSE dsuf,
     entries |-> TextEntries(item.entries, 1)]
TextEntries(es, i) ==
    IF i > Len(es) THEN <<>>
    ELSE IF es[i].item.k \in {"value", "inline"}
         THEN << [key |-> es[i].key, val |-> TextOfValue(es[i].item, " ", "")] >>
              \o TextEntries(es, i + 1)
         ELSE TextEntries(es, i + 1)

RECURSIVE SerValues(_, _)
RECURSIVE SerTables(_, _, _)
\* The key/value lines of a table, in order.
SerValues(es, i) ==
    IF i > Len(es) THEN <<>>
    ELSE IF es[i].item.k \in {"value", "inline"}
         THEN << KvLine(es[i].key, TextOfValue(es[i].item, " ", "")) >>
              \o SerValues(es, i + 1)
         ELSE SerValues(es, i + 1)
\* The sub-tables of a table: each a header, its values, its own sub-tables.
SerTables(path, es, i) ==
    IF i > Len(es) THEN <<>>
    ELSE IF es[i].item.k = "table"
         THEN << HdrLine(path \o <<es[i].key>>) >>
              \o SerValues(es[i].item.entries, 1)
              \o SerTables(path \o <<es[i].key>>, es[i].item.entries, 1)
              \o SerTables(path, es, i + 1)
         ELSE SerTables(path, es, i + 1)

\* DocumentMut::to_string
DocToString(doc) == SerValues(doc.entries, 1) \o SerTables(<<>>, doc.entries, 1)

\* A key as it is written: the empty key is quoted.
KeyString(key) == IF key = "" THEN "\"\"" ELSE key

RECURSIVE ValString(_)
RECURSIVE InlineBody(_, _)
\* The characters of a value in text.
ValString(tv) ==
    IF tv.k = "value" THEN tv.pre \o tv.repr \o tv.suf
    ELSE tv.pre \o "{" \o InlineBody(tv.entries, 1) \o "}" \o tv.suf
InlineBody(es, i) ==
    IF i > Len(es) THEN IF Len(es) = 0 THEN "" ELSE " "
    ELSE (IF i > 1 THEN "," ELSE "") \o " " \o KeyString(es[i].key) \o " ="
         \o ValString(es[i].val)
         \o InlineBody(es, i + 1)

RECURSIVE JoinDots(_)
JoinDots(path) ==
    IF Len(path) = 0 THEN ""
    ELSE IF Len(path) = 1 THEN path[1]
    ELSE path[1] \o "." \o JoinDots(Tail(path))

\* The characters of a line.
LineString(line) ==
    IF line.t = "hdr" THEN "[" \o JoinDots(line.path) \o "]\n"
    ELSE IF line.t = "kv" THEN KeyString(line.path[1]) \o " =" \o ValString(line.val) \o "\n"
    ELSE "?\n"

RECURSIVE Bytes(_)
\* The characters of a file.
Bytes(text) == IF Len(text) = 0 THEN "" ELSE LineString(Head(text)) \o Bytes(Tail(text))

\* impl Display for Item: nothing for Item::None, a value with the decor it has
\* (none by default), a table as its lines.
ItemToString(item) ==
    IF item.k = "none" THEN ""
    ELSE IF item.k \in {"value", "inline"} THEN ValString(TextOfValue(item, "", ""))
    ELSE Bytes(SerValues(item.entries, 1) \o SerTables(<<>>, item.entries, 1))

\* ------------------------------------------------------- toml_edit: parsing

RECURSIVE ParseVal(_)
RECURSIVE ParseEntries(_, _)
\* A parsed value keeps the text around it as its decor.
ParseVal(tv) ==
    [k |-> tv.k, repr |-> tv.repr, pre |-> Some(tv.pre), suf |-> Some(tv.suf),
     entries |-> ParseEntries(tv.entries, 1)]
ParseEntries(es, i) ==
    IF i > Len(es) THEN <<>>
    ELSE << [key |-> es[i].key, item |-> ParseVal(es[i].val)] >> \o ParseEntries(es, i + 1)

RECURSIVE EnsureTable(_, _)
\* The table at path made to exist.
EnsureTable(item, path) ==
    LET base == IF item.k = "table" THEN item ELSE TableItem(<<>>)
    IN  IF Len(path) = 0 THEN base
        ELSE PutEntry(base, Head(path), EnsureTable(GetEntry(base, Head(path)), Tail(path)))

RECURSIVE PutInTable(_, _, _, _)
\* key = new entered into the table at path.
PutInTable(item, path, key, new) ==
    IF Len(path) = 0 THEN PutEntry(item, key, new)
    ELSE PutEntry(item, Head(path),
                  PutInTable(GetEntry(item, Head(path)), Tail(path), key, new))

RECURSIVE ParseLines(_, _, _, _)
ParseLines(text, i, root, cur) ==
    IF i > Len(text) THEN root
    ELSE IF text[i].t = "hdr"
         THEN ParseLines(text, i + 1, EnsureTable(root, text[i].path), text[i].path)
         ELSE ParseLines(text, i + 1,
                         PutInTable(root, cur, text[i].path[1], ParseVal(text[i].val)), cur)

\* toml_str.parse::<DocumentMut>()
ParseOk(text) == \A i \in 1..Len(text) : text[i].t # "junk"
ParseToml(text) == ParseLines(text, 1, TableItem(<<>>), <<>>)

\* ------------------------------------------------ the strict loader (load)

StrictLoadOk == [ok |-> TRUE, msg |-> ""]
StrictLoadErr(m) == [ok |-> FALSE, msg |-> m]

RECURSIVE GetPath(_, _)
\* The item at a path of keys, or Item::None.
GetPath(item, parts) ==
    IF Len(parts) = 0 THEN item ELSE GetPath(GetEntry(item, Head(parts)), Tail(parts))

\* ConfigFile::load on a file with this text: the text must be TOML, the field
\* sync.timeout_ms must be there and be an integer, sync.interval_ms must be
\* an integer when it is there.
StrictLoad(text) ==
    IF ~ParseOk(text) THEN StrictLoadErr("TOML parse error")
    ELSE LET d  == ParseToml(text)
             tm == GetPath(d, <<"sync", "timeout_ms">>)
             iv == GetPath(d, <<"sync", "interval_ms">>)
         IN  IF tm.k = "none" THEN StrictLoadErr("missing field timeout_ms")
             ELSE IF ~(tm.k = "value" /\ tm.repr \in IntLiterals)
                  THEN StrictLoadErr("invalid type for timeout_ms, expected u64")
             ELSE IF iv.k # "none" /\ ~(iv.k = "value" /\ iv.repr \in IntLiterals)
                  THEN StrictLoadErr("invalid type for interval_ms, expected u64")
             ELSE StrictLoadOk

\* ------------------------------------------------------------ the edit loop

\* Mutant of IndexMutAssign: the value is assigned under the first key of the
\* path, the rest of the path is not walked.
IndexMutAssign_FirstKeyOnly(item, parts, new) == PutEntry(item, parts[1], new)

RECURSIVE IndexMutAssign(_, _, _)
\* Lines 92-100 for one edit: walk `current = &mut current[key]` along the key
\* parts and assign at the last.  Indexing mutably turns Item::None into an
\* inline table, enters a missing key into a table, and panics on a scalar.
IndexMutAssign(item, parts, new) ==
    IF item.k \notin {"none", "table", "inline"} THEN Panic
    ELSE LET base == IF item.k = "none" THEN InlineItem(<<>>) ELSE item
         IN  IF Len(parts) = 1 THEN PutEntry(base, parts[1], new)
             ELSE LET sub == IndexMutAssign(GetEntry(base, parts[1]), Tail(parts), new)
                  IN  IF sub.k = "panic" THEN Panic ELSE PutEntry(base, parts[1], sub)

\* Line 102: whether the edit counts as a change.
EditChanged(old_value, new_item) == ItemToString(old_value) # ItemToString(new_item)

\* ------------------------------------------------------------- print_hints

RECURSIVE ChildRows(_, _, _)
\* Lines 165-172: one row per child, keyed `key.child`.
ChildRows(key, children, i) ==
    IF i > Len(children) THEN <<>>
    ELSE << [key |-> Concat(key) \o "." \o children[i].path,
             type_info |-> children[i].type_info,
             description |-> children[i].description] >>
         \o ChildRows(key, children, i + 1)

\* Mutant of HintRows: a path with no schema match still gets a row.
HintRows_RowForUnknown(kv) ==
    LET key    == TrimEnd(kv.key, "?")
        schema == find(CONFIG_SCHEMA, key)
    IN  IF IsSome(schema)
        THEN [rows |-> << [key |-> Concat(key),
                           type_info |-> Unwrap(schema).type_info,
                           description |-> Unwrap(schema).description] >>
                       \o ChildRows(key, Unwrap(schema).children, 1),
              warnings |-> <<>>]
        ELSE [rows |-> << [key |-> Concat(key), type_info |-> "", description |-> ""] >>,
              warnings |-> << Concat(key) >>]

\* Lines 157-175 for one hint: the rows it adds and the warnings it emits.
HintRows(kv) ==
    LET key    == TrimEnd(kv.key, "?")
        schema == find(CONFIG_SCHEMA, key)
    IN  IF IsSome(schema)
        THEN [rows |-> << [key |-> Concat(key),
                           type_info |-> Unwrap(schema).type_info,
                           description |-> Unwrap(schema).description] >>
                       \o ChildRows(key, Unwrap(schema).children, 1),
              warnings |-> <<>>]
        ELSE [rows |-> <<>>, warnings |-> << Concat(key) >>]

RECURSIVE HintTable(_, _)
\* The loop of print_hints over the hints from position i.
HintTable(hints, i) ==
    IF i > Len(hints) THEN [rows |-> <<>>, warnings |-> <<>>]
    ELSE LET h == HintRows(hints[i])
             r == HintTable(hints, i + 1)
         IN  [rows |-> h.rows \o r.rows, warnings |-> h.warnings \o r.warnings]

\* ------------------------------------------------------------ print_config

RECURSIVE add_to_table(_, _, _)
RECURSIVE TableRows(_, _, _, _)
\* Lines 229-264.  prefix is a path in symbols; a row is [key, value,
\* type_info].  Item::Value covers scalars and inline tables.
add_to_table(prefix, item, schema) ==
    IF item.k = "none" THEN <<>>
    ELSE IF item.k \in {"value", "inline"}
         THEN << [key |-> Concat(prefix), value |-> ItemToString(item),
                  type_info |-> schema.type_info] >>
    ELSE TableRows(prefix, item.entries, 1, schema)
\* Lines 240-258: the loop over the entries of a table, from position i.
\* No value of the model is a string, so value.as_str() is None for each and
\* the cell is unwrap_or("").
TableRows(prefix, es, i, schema) ==
    IF i > Len(es) THEN <<>>
    ELSE LET full_path    == IF Len(prefix) = 0 THEN << es[i].key >>
                             ELSE prefix \o << ".", es[i].key >>
             child_schema == find(schema, full_path)
             rows == IF ~IsSome(child_schema) THEN <<>>
                     ELSE IF es[i].item.k = "table"
                          THEN add_to_table(full_path, es[i].item, Unwrap(child_schema))
                          ELSE << [key |-> Concat(full_path), value |-> "",
                                   type_info |-> Unwrap(child_schema).type_info] >>
         IN  rows \o TableRows(prefix, es, i + 1, schema)

RECURSIVE TopLevelRows(_, _)
\* Lines 267-271: the loop over the top-level entries of the document.
TopLevelRows(es, i) ==
    IF i > Len(es) THEN <<>>
    ELSE LET schema == find(CONFIG_SCHEMA, << es[i].key >>)
         IN  (IF IsSome(schema) THEN add_to_table(<< es[i].key >>, es[i].item, Unwrap(schema))
              ELSE <<>>)
             \o TopLevelRows(es, i + 1)

\* print_human: the rows of the table it prints.
print_human(d) == TopLevelRows(d.entries, 1)

\* print_config: what is printed, as [format, text, rows].  Default and Toml
\* print the text of the document; Json prints the JSON value of that text,
\* which the text stands for here; Human prints the table of print_human.
print_config(format, d) ==
    [format |-> format,
     text |-> IF format = "human" THEN <<>> ELSE DocToString(d),
     rows |-> IF format = "human" THEN print_human(d) ELSE <<>>]

\* ---------------------------------------------------------------- the state

VARIABLES
    disk,          \* the configuration file: None (the node is not initialized) or Some(text)
    rawargs,       \* the positional arguments of the command line, as tokens
    print,         \* the --print format
    lookup,        \* one call of ConfigSchema::find: the node, the path, the outcome
    save,          \* the -s / --save flag
    runs,          \* the number of the invocation
    pc,            \* the place of the invocation in run
    args,          \* self.args: the arguments as clap parsed them
    toml_str,      \* the text read from the file
    doc,           \* the in-memory document
    hints, edits,  \* the partition of args
    next_edit,     \* the place of the edit loop in edits
    changes_made,
    tmp,           \* the transient file of validate_toml: None or Some(text)
    out,           \* what the invocation printed
    result,        \* how the invocation ended
    trace          \* what the invocation did to files

vars == << disk, rawargs, print, lookup, save, runs, pc, args, toml_str, doc, hints, edits,
           next_edit, changes_made, tmp, out, result, trace >>

\* ------------------------------------------------------ command lines, files

Tok_SetTimeout5000 == << "sync", ".", "timeout_ms", "=", "5000" >>
Tok_SetTimeout3000 == << "sync", ".", "timeout_ms", "=", "3000" >>
Tok_SetTimeoutTrue == << "sync", ".", "timeout_ms", "=", "true" >>
Tok_HintRootSync   == << "root", ".", "sync", "?", "=", "true" >>
Tok_HintTimeout    == << "sync", ".", "timeout_ms", "?", "=", "true" >>
Tok_HintSync       == << "sync", "?", "=", "true" >>
Tok_HintBogus      == << "bogus", ".", "path", "?", "=", "true" >>
Tok_BareHint       == << "sync", "?" >>
Tok_EmptyKey       == << "=", "5000" >>
Tok_BadValue       == << "sync", ".", "timeout_ms", "=", "abc" >>
Tok_NewKey         == << "new", ".", "key", "=", "5000" >>
Tok_SetNew         == << "new", "=", "3000" >>
Tok_SetSync        == << "sync", "=", "3000" >>
Tok_ScalarChild    == << "sync", ".", "timeout_ms", ".", "x", "=", "5000" >>

ArgTokens == { Tok_SetTimeout5000, Tok_SetTimeout3000, Tok_SetTimeoutTrue,
               Tok_HintRootSync, Tok_HintTimeout, Tok_HintSync, Tok_HintBogus,
               Tok_BareHint, Tok_EmptyKey, Tok_BadValue,
               Tok_NewKey, Tok_SetNew, Tok_SetSync, Tok_ScalarChild }

RECURSIVE SeqsUpTo(_, _)
\* The sequences of at most n elements of S.
SeqsUpTo(S, n) ==
    IF n = 0 THEN { <<>> }
    ELSE LET shorter == SeqsUpTo(S, n - 1)
         IN  shorter \cup { Append(q, x) : q \in shorter, x \in S }

CommandLines == SeqsUpTo(ArgTokens, MaxArgs)

\* Configuration files as they are found on disk: the usual layout, one with a
\* comment after the value, one written without a space before the value, one
\* lacking the required field, and one that is no TOML.
File_Usual ==
    << HdrLine(<<"sync">>),
       KvLine("timeout_ms", TextValue("5000", " ", "")),
       KvLine("interval_ms", TextValue("3000", " ", "")) >>
File_Comment ==
    << HdrLine(<<"sync">>),
       KvLine("timeout_ms", TextValue("5000", " ", " # ms")),
       KvLine("interval_ms", TextValue("3000", " ", "")) >>
File_Tight ==
    << HdrLine(<<"sync">>),
       KvLine("timeout_ms", TextValue("5000", "", "")) >>
File_NoTimeout ==
    << HdrLine(<<"sync">>),
       KvLine("interval_ms", TextValue("3000", " ", "")) >>
File_Junk == << JunkLine >>

Files == { File_Usual, File_Comment, File_Tight, File_NoTimeout, File_Junk }

\* enum PrintFormat
PrintFormats == { "default", "toml", "json", "human" }

\* No call of find under way.
NoLookup == [self |-> CONFIG_SCHEMA, path |-> <<>>, result |-> None, returned |-> FALSE]

\* ---------------------------------------------------------------- results

Running == [status |-> "running", stage |-> "", msg |-> ""]
Ok == [status |-> "ok", stage |-> "", msg |-> ""]
Err(stage, msg) == [status |-> "err", stage |-> stage, msg |-> msg]
Panicked == [status |-> "panic", stage |-> "edit", msg |-> "index not found"]

NoOut == [table |-> None, warnings |-> <<>>, diff |-> <<>>, notes |-> 0,
          nochange |-> 0, config |-> <<>>, info |-> 0]

\* What an invocation did to files: the texts given to write(&path, ..), the
\* texts the loader was given and those it accepted, the exit of validate_toml
\* ("" while it has not returned), the file as the invocation found it, and
\* the text the invocation before it wrote to the file, if it wrote.
NoTrace(d) == [writes |-> <<>>, loaded |-> <<>>, validated |-> <<>>, vexit |-> "",
               disk0 |-> d, prev_written |-> None]

StartOfRun(d) ==
    /\ pc = "clap"
    /\ args = <<>>
    /\ toml_str = <<>>
    /\ doc = TableItem(<<>>)
    /\ hints = <<>>
    /\ edits = <<>>
    /\ next_edit = 1
    /\ changes_made = FALSE
    /\ tmp = None
    /\ out = NoOut
    /\ result = Running
    /\ trace = NoTrace(d)

Init ==
    /\ disk \in { None } \cup { Some(f) : f \in Files }
    /\ rawargs \in CommandLines
    /\ print \in PrintFormats
    /\ lookup = NoLookup
    /\ save \in BOOLEAN
    /\ runs = 1
    /\ StartOfRun(disk)

\* ------------------------------------------------------------- the actions

RECURSIVE FirstError(_, _)
\* The error of the first token that from_str rejects, from position j.
FirstError(tokens, j) ==
    IF j > Len(tokens) THEN None
    ELSE IF ~from_str(tokens[j]).ok THEN Some(from_str(tokens[j]).err)
    ELSE FirstError(tokens, j + 1)

\* clap gives each positional argument to KeyValuePair::from_str and ends the
\* process, before run is called, at the first one it rejects.
ClapParse ==
    /\ pc = "clap"
    /\ LET e == FirstError(rawargs, 1)
       IN  IF IsSome(e)
           THEN /\ result' = Err("clap", Unwrap(e))
                /\ pc' = "done"
                /\ args' = args
           ELSE /\ args' = [j \in 1..Len(rawargs) |->
                               [key |-> from_str(rawargs[j]).key,
                                value |-> from_str(rawargs[j]).value]]
                /\ pc' = "read"
                /\ result' = result
    /\ UNCHANGED << disk, rawargs, print, lookup, save, runs, toml_str, doc, hints, edits,
                    next_edit, changes_made, tmp, out, trace >>

\* Lines 66-75: the node must be initialized, the file is read and parsed.
ReadConfig ==
    /\ pc = "read"
    /\ IF ~IsSome(disk)
       THEN /\ result' = Err("init", "Node is not initialized")
            /\ pc' = "done"
            /\ UNCHANGED << toml_str, doc >>
       ELSE IF ~ParseOk(Unwrap(disk))
       THEN /\ result' = Err("parse", "TOML parse error")
            /\ pc' = "done"
            /\ toml_str' = Unwrap(disk)
            /\ doc' = doc
       ELSE /\ toml_str' = Unwrap(disk)
            /\ doc' = ParseToml(Unwrap(disk))
            /\ pc' = "partition"
            /\ result' = result
    /\ UNCHANGED << disk, rawargs, print, lookup, save, runs, args, hints, edits, next_edit,
                    changes_made, tmp, out, trace >>

IsHint(kv) == EndsWith(kv.key, "?")
IsEdit(kv) == ~IsHint(kv)

\* Mutant of AfterPartition: the edits are looked at before the hints.
AfterPartition_EditsFirst(hs, es) ==
    IF Len(es) > 0 THEN "edit"
    ELSE IF Len(hs) > 0 THEN "hints"
    ELSE "validate"

\* Lines 83-89: where run goes once the arguments are partitioned.
AfterPartition(hs, es) ==
    IF Len(hs) > 0 THEN "hints"
    ELSE IF Len(es) > 0 THEN "edit"
    ELSE "validate"

\* Lines 77-89: the arguments are split into hints and edits.
Partition ==
    /\ pc = "partition"
    /\ hints' = SelectSeq(args, IsHint)
    /\ edits' = SelectSeq(args, IsEdit)
    /\ pc' = AfterPartition(hints', edits')
    /\ UNCHANGED << disk, rawargs, print, lookup, save, runs, args, toml_str, doc, next_edit,
                    changes_made, tmp, out, result, trace >>

\* Lines 84, 147-180: print_hints, and run returns what it returns.
PrintHints ==
    /\ pc = "hints"
    /\ LET t == HintTable(hints, 1)
       IN  out' = [out EXCEPT !.table = Some(t.rows), !.warnings = @ \o t.warnings]
    /\ result' = Ok
    /\ pc' = "done"
    /\ UNCHANGED << disk, rawargs, print, lookup, save, runs, args, toml_str, doc, hints, edits,
                    next_edit, changes_made, tmp, trace >>

\* Lines 90-105: one turn of the edit loop.
ApplyEdit ==
    /\ pc = "edit"
    /\ LET kv        == edits[next_edit]
           key_parts == Split(kv.key, ".")
           old_value == GetPath(doc, key_parts)
           edited    == IndexMutAssign(doc, key_parts, kv.value)
       IN  IF edited.k = "panic"
           THEN /\ result' = Panicked
                /\ pc' = "done"
                /\ UNCHANGED << doc, changes_made, next_edit >>
           ELSE /\ doc' = edited
                /\ changes_made' =
                       (changes_made \/ EditChanged(old_value, GetPath(edited, key_parts)))
                /\ next_edit' = next_edit + 1
                /\ pc' = IF next_edit = Len(edits) THEN "validate" ELSE "edit"
                /\ result' = result
    /\ UNCHANGED << disk, rawargs, print, lookup, save, runs, args, toml_str, hints, edits, tmp,
                    out, trace >>

\* Mutant of DropTempFile: the file is kept (as NamedTempFile::keep would).
DropTempFile_Kept(t) == t

\* Dropping the NamedTempFile removes the file.
DropTempFile(t) == None

\* Mutant of ValidatedText: the text read from the file is validated, not the
\* edited document.
ValidatedText_Original(d, original) == original

\* What validate_toml writes to the transient file.
ValidatedText(d, original) == DocToString(d)

\* Mutant of ValidationError: the loader's message is dropped, as line 136
\* drops the cause of the path conversion.
ValidationError_NoCause(m) == Err("validation", "Config validation failed")

\* Line 140: the error of a failed load.
ValidationError(m) == Err("validation", "Config validation failed: " \o m)

\* Line 130: NamedTempFile::new creates the file, or fails.
TempNew ==
    /\ pc = "validate"
    /\ \E ok \in BOOLEAN :
          IF ok
          THEN /\ tmp' = Some(<<>>)
               /\ pc' = "v_write"
               /\ UNCHANGED << result, trace >>
          ELSE /\ result' = Err("io", "tempfile")
               /\ trace' = [trace EXCEPT !.vexit = "new_failed"]
               /\ pc' = "done"
               /\ tmp' = tmp
    /\ UNCHANGED << disk, rawargs, print, lookup, save, runs, args, toml_str, doc, hints, edits,
                    next_edit, changes_made, out >>

\* Line 133: the serialized document is written to the transient file.
TempWrite ==
    /\ pc = "v_write"
    /\ \E ok \in BOOLEAN :
          IF ok
          THEN /\ tmp' = Some(ValidatedText(doc, toml_str))
               /\ pc' = "v_utf8"
               /\ UNCHANGED << result, trace >>
          ELSE /\ result' = Err("io", "write")
               /\ trace' = [trace EXCEPT !.vexit = "write_failed"]
               /\ tmp' = DropTempFile(tmp)
               /\ pc' = "done"
    /\ UNCHANGED << disk, rawargs, print, lookup, save, runs, args, toml_str, doc, hints, edits,
                    next_edit, changes_made, out >>

\* Lines 135-136: the path of the transient file is converted to UTF-8.
TempPathUtf8 ==
    /\ pc = "v_utf8"
    /\ \E ok \in BOOLEAN :
          IF ok
          THEN /\ pc' = "v_load"
               /\ UNCHANGED << result, trace, tmp >>
          ELSE /\ result' = Err("io", "Failed to convert temp path to UTF-8")
               /\ trace' = [trace EXCEPT !.vexit = "utf8_failed"]
               /\ tmp' = DropTempFile(tmp)
               /\ pc' = "done"
    /\ UNCHANGED << disk, rawargs, print, lookup, save, runs, args, toml_str, doc, hints, edits,
                    next_edit, changes_made, out >>

\* Lines 138-140: the strict loader loads the transient file.
Load ==
    /\ pc = "v_load"
    /\ LET r == StrictLoad(Unwrap(tmp))
       IN  IF r.ok
           THEN /\ pc' = "v_close"
                /\ trace' = [trace EXCEPT !.loaded = Append(@, Unwrap(tmp)),
                                          !.validated = Append(@, Unwrap(tmp))]
                /\ UNCHANGED << result, tmp >>
           ELSE /\ result' = ValidationError(r.msg)
                /\ trace' = [trace EXCEPT !.loaded = Append(@, Unwrap(tmp)),
                                          !.vexit = "load_failed"]
                /\ tmp' = DropTempFile(tmp)
                /\ pc' = "done"
    /\ UNCHANGED << disk, rawargs, print, lookup, save, runs, args, toml_str, doc, hints, edits,
                    next_edit, changes_made, out >>

\* Lines 142-144: the transient file is closed, which removes it.
TempClose ==
    /\ pc = "v_close"
    /\ tmp' = DropTempFile(tmp)
    /\ trace' = [trace EXCEPT !.vexit = "ok"]
    /\ pc' = "finish"
    /\ UNCHANGED << disk, rawargs, print, lookup, save, runs, args, toml_str, doc, hints, edits,
                    next_edit, changes_made, out, result >>

\* Mutant of Outcome: a changed batch is written whether or not --save is given.
Outcome_SaveIgnored(changed, save_flag, no_edits) ==
    IF changed THEN "save"
    ELSE IF no_edits THEN "print"
    ELSE "warn"

\* Lines 110-124: which of the four ends run takes.
Outcome(changed, save_flag, no_edits) ==
    IF changed THEN (IF save_flag THEN "save" ELSE "diff")
    ELSE IF no_edits THEN "print"
    ELSE "warn"

\* Mutant of SavedText: the text read from the file is written back.
SavedText_Original(d, original) == original

\* Line 112: the text written to the configuration file.
SavedText(d, original) == DocToString(d)

\* Lines 110-126: the file is written, or the diff, the document or the
\* warning is printed.
Finish ==
    /\ pc = "finish"
    /\ LET o == Outcome(changes_made, save, Len(edits) = 0)
           new_text == DocToString(doc)
       IN  \/ /\ o = "save"
              /\ \E ok \in BOOLEAN :
                    IF ok
                    THEN /\ disk' = Some(SavedText(doc, toml_str))
                         /\ trace' = [trace EXCEPT !.writes =
                                          Append(@, SavedText(doc, toml_str))]
                         /\ out' = [out EXCEPT !.info = @ + 1]
                         /\ result' = Ok
                    ELSE /\ result' = Err("io", "write")
                         /\ UNCHANGED << disk, trace, out >>
           \/ /\ o = "diff"
              /\ out' = [out EXCEPT !.diff = Append(@, [old |-> toml_str, new |-> new_text]),
                                    !.notes = @ + 1]
              /\ result' = Ok
              /\ UNCHANGED << disk, trace >>
           \/ /\ o = "print"
              /\ out' = [out EXCEPT !.config = Append(@, print_config(print, doc))]
              /\ result' = Ok
              /\ UNCHANGED << disk, trace >>
           \/ /\ o = "warn"
              /\ out' = [out EXCEPT !.nochange = @ + 1]
              /\ result' = Ok
              /\ UNCHANGED << disk, trace >>
    /\ pc' = "done"
    /\ UNCHANGED << rawargs, print, lookup, save, runs, args, toml_str, doc, hints, edits,
                    next_edit, changes_made, tmp >>

\* The same command line is given again, with or without --save.
Rerun ==
    /\ pc = "done"
    /\ runs < MaxRuns
    /\ runs' = runs + 1
    /\ save' \in BOOLEAN
    /\ pc' = "clap"
    /\ args' = <<>>
    /\ toml_str' = <<>>
    /\ doc' = TableItem(<<>>)
    /\ hints' = <<>>
    /\ edits' = <<>>
    /\ next_edit' = 1
    /\ changes_made' = FALSE
    /\ tmp' = None
    /\ out' = NoOut
    /\ result' = Running
    /\ trace' = [NoTrace(disk) EXCEPT !.prev_written =
                     IF Len(trace.writes) > 0 THEN Some(trace.writes[1]) ELSE None]
    /\ UNCHANGED << disk, rawargs, print, lookup >>

Next ==
    \/ ClapParse
    \/ ReadConfig
    \/ Partition
    \/ PrintHints
    \/ ApplyEdit
    \/ TempNew
    \/ TempWrite
    \/ TempPathUtf8
    \/ Load
    \/ TempClose
    \/ Finish
    \/ Rerun

Spec == Init /\ [][Next]_vars

\* ------------------------------------------------- ConfigSchema::find alone

RECURSIVE NodesOf(_)
\* The nodes of a schema tree.
NodesOf(n) == {n} \cup UNION { NodesOf(n.children[i]) : i \in 1..Len(n.children) }

SchemaNodes == NodesOf(CONFIG_SCHEMA)

\* The segments paths are made of: labels of the tree, a word that is no
\* label, and the empty segment.
Segments == { "root", "sync", "timeout_ms", "discovery", "relay",
              "registrations_limit", "bogus", "" }

RECURSIVE Dotted(_)
\* The path, in symbols, that has these segments between its dots.
Dotted(segs) ==
    IF Len(segs) = 0 THEN <<>>
    ELSE (IF Head(segs) = "" THEN <<>> ELSE << Head(segs) >>)
         \o (IF Len(segs) > 1 THEN << "." >> \o Dotted(Tail(segs)) ELSE <<>>)

Paths == { Dotted(q) : q \in SeqsUpTo(Segments, MaxPathLen) \ { <<>> } }

\* find is about to be called on some node of the tree with some path.
InitFind ==
    /\ lookup \in [self : SchemaNodes, path : Paths, result : {None}, returned : {FALSE}]
    /\ disk = None
    /\ rawargs = <<>>
    /\ print = "default"
    /\ save = FALSE
    /\ runs = 1
    /\ StartOfRun(disk)

\* Lines 287-300: the call returns.
Find ==
    /\ ~lookup.returned
    /\ lookup' = [lookup EXCEPT !.result = find(lookup.self, lookup.path),
                                !.returned = TRUE]
    /\ UNCHANGED << disk, rawargs, print, save, runs, pc, args, toml_str, doc, hints,
                    edits, next_edit, changes_made, tmp, out, result, trace >>

NextFind == Find

FindSpec == InitFind /\ [][NextFind]_vars

\* ---------------------------------------------------------------- claims

\* C1: the configuration file is written only after the validation of the
\* edited document has succeeded in the same invocation, and the text written
\* is the text that was validated; the file never changes otherwise.
C1_WriteOnlyAfterValidation ==
    /\ \A j \in 1..Len(trace.writes) :
          /\ Len(trace.validated) = 1
          /\ trace.writes[j] = trace.validated[1]
    /\ disk # trace.disk0 =>
          /\ Len(trace.validated) = 1
          /\ disk = Some(trace.validated[1])
          /\ trace.vexit = "ok"

C1_Witness ==
    /\ pc = "done"
    /\ Len(trace.writes) = 1
    /\ disk # trace.disk0
    /\ disk = Some(DocToString(doc))

\* C2: when the strict loader rejects the edited document, the invocation ends
\* in an error that carries the loader's message and the configuration file is
\* as the invocation found it, with the save flag set or not.
C2_RejectedBatchLeavesFile ==
    (Len(trace.loaded) > 0 /\ ~StrictLoad(trace.loaded[1]).ok) =>
        /\ pc = "done"
        /\ result.status = "err"
        /\ result.stage = "validation"
        /\ result.msg = "Config validation failed: " \o StrictLoad(DocToString(doc)).msg
        /\ trace.writes = <<>>
        /\ disk = trace.disk0

C2_Witness ==
    /\ pc = "done"
    /\ save
    /\ Len(edits) > 0
    /\ trace.loaded = << DocToString(doc) >>
    /\ DocToString(doc) # toml_str
    /\ ~StrictLoad(DocToString(doc)).ok
    /\ StrictLoad(toml_str).ok
    /\ result.status = "err"

\* C3: once validate_toml has returned, by whichever exit (the load succeeded,
\* the write to the transient file failed, the conversion of its path failed,
\* the loader failed), the transient file does not exist.
C3_TransientFileRemoved ==
    /\ trace.vexit # "" => tmp = None
    /\ pc \in {"finish", "done"} => tmp = None
    /\ trace.vexit \in {"", "ok", "new_failed", "write_failed", "utf8_failed", "load_failed"}

C3_Witness ==
    /\ trace.vexit = "load_failed"
    /\ Len(trace.loaded) = 1
    /\ tmp = None

HasHintArg == \E j \in 1..Len(args) : IsHint(args[j])

\* C4: when an argument of the invocation is a hint query, no edit is applied
\* to the document, nothing is validated, no diff is shown and the file is not
\* written; the invocation presents the hint table and ends, whatever the
\* number of edits beside the hints and whatever the save flag.
C4_HintsExcludeEdits ==
    HasHintArg =>
        /\ pc \in {"read", "partition", "hints", "done"}
        /\ ParseOk(toml_str) => doc = ParseToml(toml_str)
        /\ ~changes_made
        /\ next_edit = 1
        /\ trace.loaded = <<>>
        /\ trace.vexit = ""
        /\ tmp = None
        /\ out.diff = <<>>
        /\ out.config = <<>>
        /\ out.nochange = 0
        /\ trace.writes = <<>>
        /\ disk = trace.disk0
        /\ (pc = "done" /\ result.status = "ok") => IsSome(out.table)

C4_Witness ==
    /\ pc = "done"
    /\ Len(hints) > 0
    /\ Len(edits) > 0
    /\ save
    /\ IsSome(out.table)
    /\ result = Ok

\* Whether an edit sets its key to the value the file already gives it.
SetsSameValue(kv) ==
    LET old == GetPath(ParseToml(toml_str), Split(kv.key, "."))
    IN  old.k = "value" /\ old.repr = kv.value.repr

\* C5: an invocation whose edits set keys to the values they already have is
\* classified as unchanged, whatever whitespace or comment surrounds the old
\* value in the file: it emits the "no changes were made" warning, shows no
\* diff and does not write the file.
C5_SameValueIsUnchanged ==
    ( /\ pc = "done"
      /\ result.status = "ok"
      /\ Len(hints) = 0
      /\ Len(edits) > 0
      /\ \A j \in 1..Len(edits) : SetsSameValue(edits[j]) )
    => /\ ~changes_made
       /\ out.nochange = 1
       /\ out.diff = <<>>
       /\ trace.writes = <<>>

\* C6: a batch of key=value edits applied again to the document the first
\* application left (the file the invocation before wrote) is classified as
\* unchanged, and the serialized document is the one the first application
\* produced.
C6_SecondApplicationUnchanged ==
    ( /\ runs > 1
      /\ IsSome(trace.prev_written)
      /\ pc = "validate"
      /\ \A j \in 1..Len(rawargs) : IndexOf(rawargs[j], "=", 1) > 1 )
    => /\ ~changes_made
       /\ DocToString(doc) = Unwrap(trace.prev_written)

Row(k, t, d) == [key |-> k, type_info |-> t, description |-> d]

\* C7: the hint query `sync.timeout_ms?` yields exactly the row
\* {sync.timeout_ms, u64, description}, and `sync?` yields the row of sync
\* followed by the rows of sync.timeout_ms and sync.interval_ms.
C7_HintLookup ==
    (pc = "done" /\ result = Ok)
    => /\ rawargs = << Tok_HintTimeout >> =>
             out.table = Some(<< Row("sync.timeout_ms", "u64",
                                     "Timeout for sync operations in milliseconds") >>)
       /\ rawargs = << Tok_HintSync >> =>
             out.table = Some(<< Row("sync", "object", "Sync configuration"),
                                 Row("sync.timeout_ms", "u64",
                                     "Timeout for sync operations in milliseconds"),
                                 Row("sync.interval_ms", "u64",
                                     "Interval between sync operations in milliseconds") >>)

HintKey(kv) == TrimEnd(kv.key, "?")
KnownHint(kv) == IsSome(find(CONFIG_SCHEMA, HintKey(kv)))
UnknownHint(kv) == ~KnownHint(kv)
\* The number of rows a hint is due: its node and the node's children.
RowsDue(kv) ==
    IF KnownHint(kv) THEN 1 + Len(Unwrap(find(CONFIG_SCHEMA, HintKey(kv))).children) ELSE 0
RECURSIVE RowsDueBefore(_, _)
\* The number of rows due to the hints before position j.
RowsDueBefore(hs, j) == IF j <= 1 THEN 0 ELSE RowsDueBefore(hs, j - 1) + RowsDue(hs[j - 1])

\* C8: a hint query for a path with no schema match adds no row to the table
\* and emits exactly one warning; the other hint queries of the invocation
\* are processed, in order, and the invocation does not end in an error.
C8_UnknownHintWarns ==
    (pc = "done" /\ Len(hints) > 0)
    => /\ result = Ok
       /\ IsSome(out.table)
       /\ LET rows    == Unwrap(out.table)
              unknown == SelectSeq(hints, UnknownHint)
          IN  /\ Len(out.warnings) = Len(unknown)
              /\ \A j \in 1..Len(unknown) : out.warnings[j] = Concat(HintKey(unknown[j]))
              /\ Len(rows) = RowsDueBefore(hints, Len(hints) + 1)
              /\ \A j \in 1..Len(hints) :
                    IF KnownHint(hints[j])
                    THEN rows[RowsDueBefore(hints, j) + 1].key = Concat(HintKey(hints[j]))
                    ELSE \A r \in 1..Len(rows) : rows[r].key # Concat(HintKey(hints[j]))

C8_Witness ==
    /\ pc = "done"
    /\ Len(hints) = 2
    /\ UnknownHint(hints[1])
    /\ KnownHint(hints[2])
    /\ out.warnings = << "bogus.path" >>
    /\ Len(Unwrap(out.table)) = 3
    /\ result = Ok

\* A token that is no key=value: no '=', nothing before the first '=', or no
\* value literal after it.
Malformed(t) ==
    LET p == IndexOf(t, "=", 1)
    IN  \/ p = 0
        \/ p = 1
        \/ ~ValueFromStr(SubSeq(t, p + 1, Len(t))).ok

\* C9: a token with no '=', with an empty key before the first '=', or whose
\* value is no value literal is rejected by the argument parser and yields no
\* edit.
C9_MalformedTokenRejected ==
    (pc # "clap" /\ \E j \in 1..Len(rawargs) : Malformed(rawargs[j]))
    => /\ result.status = "err"
       /\ result.stage = "clap"
       /\ args = <<>>

\* A token `key?`: a key, the lookup marker, and no `=value`.
BareHintToken(t) == Len(t) > 1 /\ EndsWith(t, "?") /\ IndexOf(t, "=", 1) = 0

\* C10: a token `key?` is accepted by the argument parser and classified as a
\* hint query, its key being the token without the marker.
C10_BareHintAccepted ==
    ( /\ pc = "done"
      /\ \E j \in 1..Len(rawargs) : BareHintToken(rawargs[j])
      /\ \A j \in 1..Len(rawargs) : BareHintToken(rawargs[j]) \/ from_str(rawargs[j]).ok )
    => /\ result.stage # "clap"
       /\ Len(args) = Len(rawargs)
       /\ \A j \in 1..Len(rawargs) :
             BareHintToken(rawargs[j]) => (IsHint(args[j]) /\ HintKey(args[j]) = TrimEnd(rawargs[j], "?"))

\* The number of terminal outcomes the invocation has produced: a diff shown,
\* the file written, the no-change warning, the batch rejected by validation.
OutcomesProduced ==
    Len(out.diff) + Len(trace.writes) + out.nochange
    + (IF result.stage = "validation" THEN 1 ELSE 0)

\* C11: an invocation with no hint query and at least one edit, whose file
\* operations do not fail, ends only after the edit loop has gone through the
\* whole batch and the document has been given to the loader once, and it ends
\* in exactly one of: the diff shown, the file written, the no-change warning,
\* the batch rejected.
C11_EditRunEndsInOneOutcome ==
    (pc = "done" /\ Len(hints) = 0 /\ Len(edits) > 0 /\ result.stage # "io") =>
        /\ next_edit = Len(edits) + 1
        /\ Len(trace.loaded) = 1
        /\ OutcomesProduced = 1

\* The part of C11 that the code keeps: no step is taken twice and no two
\* outcomes are produced in one invocation.
C11_NoStepTwice ==
    /\ Len(trace.loaded) <= 1
    /\ OutcomesProduced <= 1
    /\ next_edit <= Len(edits) + 1
    /\ (pc = "done" /\ Len(hints) = 0 /\ Len(edits) > 0
        /\ result.stage # "io" /\ result.status # "panic") =>
           (Len(trace.loaded) = 1 /\ OutcomesProduced = 1)

\* C12: an invocation with no argument at all, on an initialized node whose
\* file is read and parses as TOML, and whose file operations do not fail,
\* ends successfully having presented the document once in the selected
\* format; it does not end in a validation rejection and it does not write
\* the file.
C12_PlainRunPresents ==
    (/\ pc = "done"
     /\ rawargs = <<>>
     /\ IsSome(trace.disk0)
     /\ ParseOk(Unwrap(trace.disk0))
     /\ result.stage # "io") =>
        /\ result = Ok
        /\ out.config = << print_config(print, ParseToml(Unwrap(trace.disk0))) >>
        /\ trace.writes = <<>>
        /\ disk = trace.disk0

RECURSIVE StripDecor(_)
RECURSIVE StripEntries(_, _)
\* An item with the decor of every value in it taken away: what is left is
\* the keys and the values.
StripDecor(item) ==
    [item EXCEPT !.pre = None, !.suf = None, !.entries = StripEntries(item.entries, 1)]
StripEntries(es, i) ==
    IF i > Len(es) THEN <<>>
    ELSE << [key |-> es[i].key, item |-> StripDecor(es[i].item)] >> \o StripEntries(es, i + 1)

\* The batch has left some value of the document other than it was read.
ValuesChanged ==
    ParseOk(toml_str) /\ StripDecor(doc) # StripDecor(ParseToml(toml_str))

\* C13: without --save no invocation writes the file, and a batch that passed
\* validation and changed a value ends with the diff and the note printed
\* once.  With --save, a batch that passed validation and changed a value, and
\* whose write does not fail, has written the file exactly once, with the
\* serialized edited document, and has printed no diff.
C13_SaveFlagDecidesWrite ==
    /\ ~save => (trace.writes = <<>> /\ disk = trace.disk0)
    /\ (pc = "done" /\ ~save /\ trace.vexit = "ok" /\ ValuesChanged) =>
           /\ out.diff = << [old |-> toml_str, new |-> DocToString(doc)] >>
           /\ out.notes = 1
           /\ result = Ok
    /\ (pc = "done" /\ save /\ trace.vexit = "ok" /\ ValuesChanged /\ result.stage # "io") =>
           /\ trace.writes = << DocToString(doc) >>
           /\ disk = Some(DocToString(doc))
           /\ out.diff = <<>>
           /\ out.notes = 0
           /\ result = Ok

C13_Witness ==
    /\ pc = "done"
    /\ save
    /\ rawargs = << Tok_SetTimeout3000 >>
    /\ ValuesChanged
    /\ trace.vexit = "ok"
    /\ trace.writes = << DocToString(doc) >>
    /\ disk # trace.disk0
    /\ out.diff = <<>>

RECURSIVE MaskAt(_, _)
\* The item with the value at a path blanked: the value's own characters are
\* taken away, the key, the decor around the value and all the rest stay.
MaskAt(item, parts) ==
    IF Len(parts) = 0 THEN [item EXCEPT !.repr = ""]
    ELSE PutEntry(item, Head(parts), MaskAt(GetEntry(item, Head(parts)), Tail(parts)))

\* The path of the only edit of a batch of one.
OnlyEditPath == Split(edits[1].key, ".")

\* C14: when one edit has been applied to a path that held a scalar, the text
\* of the document differs from the text read from the file only inside the
\* value at that path: every other key, value, comment and space is as it was.
C14_EditKeepsFormatting ==
    (/\ pc = "validate"
     /\ Len(edits) = 1
     /\ GetPath(ParseToml(toml_str), OnlyEditPath).k = "value") =>
        Bytes(DocToString(MaskAt(doc, OnlyEditPath)))
            = Bytes(DocToString(MaskAt(ParseToml(toml_str), OnlyEditPath)))

\* The key path of the j-th edit of the batch.
EditPath(j) == Split(edits[j].key, ".")

\* p is a proper prefix of q.
ProperPrefix(p, q) == Len(p) < Len(q) /\ SubSeq(q, 1, Len(p)) = p

\* The place of the last of the first n edits that targets the path of edit j.
LastEditUpTo(j, n) ==
    CHOOSE k \in j..n :
        /\ EditPath(k) = EditPath(j)
        /\ \A m \in (k + 1)..n : EditPath(m) # EditPath(j)

LastEditOf(j) == LastEditUpTo(j, Len(edits))

\* One of the first n edits, later than edit j, targets a path above or below
\* that of edit j.
OverlappedUpTo(j, n) ==
    \E m \in (j + 1)..n :
        ProperPrefix(EditPath(m), EditPath(j)) \/ ProperPrefix(EditPath(j), EditPath(m))

OverlappedLater(j) == OverlappedUpTo(j, Len(edits))

\* The value at the path of edit j in the file as it is on disk is the value
\* of the last edit that targets that path.
LoadedValueIsLastEdit(j) ==
    LET loaded == GetPath(ParseToml(Unwrap(disk)), EditPath(j))
    IN  loaded.k = "value" /\ loaded.repr = edits[LastEditOf(j)].value.repr

\* C15, as the spec states it: once a batch has been written to the file, the
\* strict loader accepts the file, and at the path of every edit of the batch
\* the file holds the value of the last edit that targets that path.
C15_PersistedRoundTrip ==
    (pc = "done" /\ Len(trace.writes) = 1) =>
        /\ StrictLoad(Unwrap(disk)).ok
        /\ \A j \in 1..Len(edits) : LoadedValueIsLastEdit(j)

\* C15, amended: the same, for every edit whose path no later edit of the
\* batch overwrote from above or below.
C15_PersistedRoundTripUnlessOverwritten ==
    (pc = "done" /\ Len(trace.writes) = 1) =>
        /\ StrictLoad(Unwrap(disk)).ok
        /\ \A j \in 1..Len(edits) : ~OverlappedLater(j) => LoadedValueIsLastEdit(j)

C15_Witness ==
    /\ pc = "done"
    /\ rawargs = << Tok_SetTimeout5000, Tok_SetTimeout3000 >>
    /\ Len(trace.writes) = 1
    /\ StrictLoad(Unwrap(disk)).ok
    /\ GetPath(ParseToml(Unwrap(disk)), <<"sync", "timeout_ms">>).repr = "3000"
    /\ disk # trace.disk0

RECURSIVE LeafRows(_, _)
RECURSIVE LeafRowsOf(_, _, _)
\* The rows the human view owes for an item at a path of keys: one row for a
\* leaf whose path, walked from the root of the schema tree, names a schema
\* node; the rows of its entries, in order, for a table; nothing otherwise.
LeafRows(path, item) ==
    IF item.k = "value"
    THEN LET schema == Descend(CONFIG_SCHEMA, path)
         IN  IF IsSome(schema)
             THEN << [key |-> JoinDots(path), value |-> item.repr,
                      type_info |-> Unwrap(schema).type_info] >>
             ELSE <<>>
    ELSE LeafRowsOf(path, item.entries, 1)
LeafRowsOf(path, es, i) ==
    IF i > Len(es) THEN <<>>
    ELSE LeafRows(path \o << es[i].key >>, es[i].item) \o LeafRowsOf(path, es, i + 1)

\* C16: the human view of a document has exactly one row for every leaf whose
\* dotted path has a schema entry, with the path, the leaf's value and the
\* entry's type label, in document order, and no row for anything else.
C16_HumanViewRows ==
    (pc = "done" /\ print = "human" /\ Len(out.config) = 1) =>
        out.config[1].rows = LeafRows(<<>>, doc)

RECURSIVE Reached(_, _)
\* The nodes reached from a node by taking, for each segment in turn, a child
\* whose label is that segment.
Reached(n, segs) ==
    IF Len(segs) = 0 THEN {n}
    ELSE UNION { Reached(n.children[i], Tail(segs)) :
                 i \in { c \in 1..Len(n.children) : n.children[c].path = Head(segs) } }

\* The nodes a path names from a node: none unless the first segment is the
\* label of the node itself.
Named(n, path) ==
    LET segs == Split(path, ".")
    IN  IF Head(segs) = n.path THEN Reached(n, Tail(segs)) ELSE {}

\* C17: find returns a node exactly when the first segment of the path is the
\* label of the node it is called on and every further segment is the label
\* of a child of the node reached so far; the node returned is the one the
\* last segment reaches; the node find was called on is a node of the tree as
\* it was.
C17_FindSemantics ==
    lookup.returned =>
        /\ IsSome(lookup.result) <=> Named(lookup.self, lookup.path) # {}
        /\ IsSome(lookup.result) => Named(lookup.self, lookup.path) = { Unwrap(lookup.result) }
        /\ lookup.self \in SchemaNodes

C17_Witness ==
    /\ lookup.returned
    /\ lookup.self = CONFIG_SCHEMA
    /\ lookup.path = Dotted(<< "root", "discovery", "relay", "registrations_limit" >>)
    /\ IsSome(lookup.result)
    /\ Unwrap(lookup.result).path = "registrations_limit"
    /\ Unwrap(lookup.result).type_info = "usize"

\* The batch was stopped: an argument did not parse, or the path of an edit
\* could not be walked.
BatchStopped ==
    pc = "done" /\ (result.stage = "clap" \/ result.status = "panic")

\* C18: when the batch is stopped by an argument that does not parse or by an
\* edit whose path cannot be walked, no edit of the batch has been applied to
\* the in-memory document, the earlier ones included, and nothing has been
\* given to the loader or written.  (Arguments with an empty key, the case of
\* C9, are left aside.)
C18_StoppedBatchAppliesNothing ==
    (BatchStopped /\ \A j \in 1..Len(rawargs) : Head(rawargs[j]) # "=") =>
        /\ ParseOk(toml_str) => doc = ParseToml(toml_str)
        /\ ~changes_made
        /\ trace.loaded = <<>>
        /\ trace.writes = <<>>
        /\ disk = trace.disk0

\* The number of edits the loop has applied.
Applied == next_edit - 1

\* Every item above the end of a path is a table or an inline table.
TablesAlong(item, parts) ==
    \A n \in 1..(Len(parts) - 1) : GetPath(item, SubSeq(parts, 1, n)).k \in {"table", "inline"}

\* C19: while the edit loop runs and after it, for every edit applied so far
\* that no later applied edit overwrote from above or below, the document
\* holds at the edit's path exactly the value of the last applied edit that
\* targets that path, whatever was there before, and every segment above it is
\* a table.
C19_EditLeavesValueAtPath ==
    \A j \in 1..Applied :
        ~OverlappedUpTo(j, Applied) =>
            /\ GetPath(doc, EditPath(j)) = edits[LastEditUpTo(j, Applied)].value
            /\ TablesAlong(doc, EditPath(j))

\* A batch that makes a table for a missing segment and puts a scalar where a
\* table was.
C19_Witness ==
    /\ pc = "validate"
    /\ rawargs = << Tok_NewKey, Tok_SetSync >>
    /\ GetPath(ParseToml(toml_str), << "new" >>).k = "none"
    /\ GetPath(ParseToml(toml_str), << "sync" >>).k = "table"
    /\ GetPath(doc, << "new" >>).k = "inline"
    /\ GetPath(doc, << "new", "key" >>).repr = "5000"
    /\ GetPath(doc, << "sync" >>) = ValueItem("3000", None, None)

\* C20: a batch counts as changed only when the text of the document after
\* the whole batch differs from the text read from the file: whenever the
\* invocation prints a diff or writes the file, the new text is not the text
\* it read, also when a later edit of the batch put a key back to what it was.
C20_ChangedMeansTextDiffers ==
    /\ \A i \in 1..Len(out.diff) : Bytes(out.diff[i].new) # Bytes(out.diff[i].old)
    /\ \A i \in 1..Len(trace.writes) : Bytes(trace.writes[i]) # Bytes(toml_str)
    /\ (pc \in {"validate", "v_write", "v_utf8", "v_load", "v_close", "finish"} /\ changes_made)
           => Bytes(DocToString(doc)) # Bytes(toml_str)
====
